---- MODULE Spec2Model ----
(***************************************************************************)
(* A model of the SpeakX speaking-practice evaluator: the Express server   *)
(* (src/unnamed/part_000) and the browser class SpeakingEvaluator          *)
(* (src/app.js).                                                           *)
(*                                                                         *)
(* JavaScript values are records tagged by their type in field t.          *)
(* Numbers are exact rationals in units of 1/Unit (q quarter-units), with  *)
(* NaN as a separate flag, so that Math.round, Math.min, Math.max and the  *)
(* multiplication by 0.5 are computed exactly as the engine computes them. *)
(***************************************************************************)
EXTENDS Integers, Sequences, FiniteSets, TLC

VARIABLES
    \* the server
    envKey,     \* process.env.GEMINI_API_KEY is a non-empty string
    genAI,      \* the module-level genAI handle is defined
    model,      \* the module-level model handle is defined
    exch,       \* the HTTP exchange just answered, or NoExchange
    waiting,    \* the requests whose handler is suspended at an await, in
                \* the order they arrived
    \* the browser
    state,          \* this.state of the SpeakingEvaluator
    handles,        \* which of this.stream, this.audioContext,
                    \* this.faceDetectionInterval, this.sessionInterval are set
    live,           \* what is alive in the page: streams with live tracks,
                    \* open audio contexts, installed intervals, scheduled
                    \* draw callbacks
    buttons,        \* the disabled flags of startBtn, stopBtn, evaluateBtn
    statusProbe,    \* checkBackendStatus: "pending" or "done"
    mediaPending,   \* startPractice calls waiting for getUserMedia
    detecting,      \* detectFace calls waiting for detectSingleFace, in the
                    \* order they started; overtaken: a call started later
                    \* has stored its result
    faceSample,     \* the call faceDetected was stored by: "newest" when no
                    \* later call had stored before it, else "overtaken"
    fetches,        \* evaluateWithBackend calls waiting for fetch
    shown,          \* what the last evaluation displayed
    currentEmotion, \* this.currentEmotion, written by draw()
    \* one application of a function of the page to drawn arguments
    trial

serverVars == <<envKey, genAI, model, exch, waiting>>
browserVars == <<state, handles, live, buttons, statusProbe, mediaPending,
                 detecting, faceSample, fetches, shown, currentEmotion>>
vars == <<envKey, genAI, model, exch, waiting, state, handles, live, buttons,
          statusProbe, mediaPending, detecting, faceSample, fetches, shown,
          currentEmotion, trial>>

-----------------------------------------------------------------------------
(* Bounds of the model *)

\* numbers the upstream model may put in a score field: the multiples of
\* 1/2 from -NegHalves/2 to MaxHalves/2, and the integer LargeScore
NegHalves == 4
MaxHalves == 21
LargeScore == 24

\* at most MaxOpen requests are open in the server at a time
MaxOpen == 2

\* at most MaxMediaPending getUserMedia requests wait at a time, MaxStreams
\* streams are acquired and not yet stopped, MaxDrawLoops
\* draw loops run, MaxDetecting detections and MaxInFlight backend calls are
\* in flight, and MaxEvals evaluations are made
MaxMediaPending == 2
MaxStreams == 2
MaxDrawLoops == 2
MaxDetecting == 2
MaxInFlight == 1
MaxEvals == 1

-----------------------------------------------------------------------------
(* JavaScript values *)

Unit == 4

Undefined == [t |-> "undefined"]
Null == [t |-> "null"]
Bool(b) == [t |-> "boolean", b |-> b]
Str(s) == [t |-> "string", s |-> s]
Num(q) == [t |-> "number", nan |-> FALSE, q |-> q]
NaN == [t |-> "number", nan |-> TRUE, q |-> 0]
PlainObject == [t |-> "object"]     \* a nested object without a field
                                    \* named toString, such as {}
\* a nested object with a field named toString, such as {"toString": 1}:
\* the field hides Object.prototype.toString and cannot be called
StubbornObject == [t |-> "object", toString |-> Num(Unit)]
PlainArray == [t |-> "array"]       \* an array of numbers, such as [7, 8]
\* an array of one element, such as [5]
ArrayOfOne(e) == [t |-> "array", only |-> e]

\* the integer n as a number
IntNum(n) == Num(n * Unit)

\* ToBoolean: the truthiness the conditions `!x` and `a && b` use
ToBoolean(v) ==
    CASE v.t = "undefined" -> FALSE
      [] v.t = "null" -> FALSE
      [] v.t = "boolean" -> v.b
      [] v.t = "number" -> ~v.nan /\ v.q # 0
      [] v.t = "string" -> v.s # ""
      [] OTHER -> TRUE

\* String(v) of a number, a string or a boolean
ValueText(v) ==
    CASE v.t = "string" -> v.s
      [] v.t = "boolean" -> IF v.b THEN "true" ELSE "false"
      [] v.t = "number" ->
            IF v.nan THEN "NaN"
            ELSE LET a == IF v.q < 0 THEN 0 - v.q ELSE v.q
                 IN (IF v.q < 0 THEN "-" ELSE "")
                    \o ToString(a \div Unit)
                    \o (CASE a % Unit = 0 -> ""
                           [] a % Unit = 1 -> ".25"
                           [] a % Unit = 2 -> ".5"
                           [] OTHER -> ".75")
      [] OTHER -> v.t

\* String(v): an object without a toString of its own gives the text of
\* Object.prototype.toString, an array the texts of its elements joined by
\* commas, with "" for null and undefined
RECURSIVE ToText(_)
ToText(v) ==
    CASE v.t = "object" -> "[object Object]"
      [] v.t = "array" ->
            IF "only" \in DOMAIN v
            THEN IF v.only.t \in {"undefined", "null"} THEN ""
                 ELSE ToText(v.only)
            ELSE "7,8"
      [] OTHER -> ValueText(v)

\* ToPrimitive throws a TypeError on an object whose toString cannot be
\* called (valueOf, own or inherited, gives no primitive), and on an array
\* that holds one, which join converts in turn
RECURSIVE CanConvert(_)
CanConvert(v) ==
    CASE v.t = "object" -> "toString" \notin DOMAIN v
      [] v.t = "array" -> IF "only" \in DOMAIN v THEN CanConvert(v.only) ELSE TRUE
      [] OTHER -> TRUE

\* ToPrimitive of a value that converts: objects and arrays give their text
ToPrimitive(v) == IF v.t \in {"object", "array"} THEN Str(ToText(v)) ELSE v

\* the numbers whose text StringToNumber reads back
ParsedNumbers ==
    {Num(q) : q \in (0 - Unit * (LargeScore + 1)) .. (Unit * (LargeScore + 1))}

\* StringToNumber: "" is 0, the text of a number is that number, any other
\* text the model draws is NaN
StringToNumber(s) ==
    IF s = "" THEN IntNum(0)
    ELSE LET read == {n \in ParsedNumbers : ValueText(n) = s}
         IN IF read = {} THEN NaN ELSE CHOOSE n \in read : TRUE

\* ToNumber: the coercion Math.max, Math.min, Math.round and `*` apply, on a
\* value that converts
ToNumber(v) ==
    CASE v.t = "undefined" -> NaN
      [] v.t = "null" -> IntNum(0)
      [] v.t = "boolean" -> IF v.b THEN IntNum(1) ELSE IntNum(0)
      [] v.t = "number" -> v
      [] OTHER -> StringToNumber(ToPrimitive(v).s)

\* x * 0.5 (exact: every operand is a multiple of 1/2)
TimesHalf(v) ==
    LET x == ToNumber(v) IN IF x.nan THEN NaN ELSE Num(x.q \div 2)

\* Math.floor in the place of Math.round
MathRoundDown(v) ==
    LET x == ToNumber(v)
    IN IF x.nan THEN NaN ELSE IntNum(x.q \div Unit)

\* Math.round: the nearest integer, halves rounded towards +Infinity
MathRound(v) ==
    LET x == ToNumber(v)
    IN IF x.nan THEN NaN ELSE IntNum((x.q + (Unit \div 2)) \div Unit)

\* Math.max(a, b) and Math.min(a, b): NaN when either operand is NaN
MathMax(a, b) ==
    LET x == ToNumber(a)
        y == ToNumber(b)
    IN IF x.nan \/ y.nan THEN NaN ELSE IF x.q >= y.q THEN x ELSE y

MathMin(a, b) ==
    LET x == ToNumber(a)
        y == ToNumber(b)
    IN IF x.nan \/ y.nan THEN NaN ELSE IF x.q <= y.q THEN x ELSE y

\* JSON.stringify of a field value inside res.json: NaN is written as null
JsonValue(v) == IF v.t = "number" /\ v.nan THEN Null ELSE v

-----------------------------------------------------------------------------
(* The upstream model's reply and the extraction of JSON from its text *)

Garbage == [t |-> "garbage"]    \* text that is not JSON

\* what `await model.generateContent(prompt)` ... `response.text()` gives:
\* an exception, or a text: a payload, possibly inside a ```json fence,
\* possibly with prose (free of braces and backticks) around it
Throws == [k |-> "throws", message |-> "upstream request failed"]
Text(fence, prose, payload) ==
    [k |-> "text", fence |-> fence, prose |-> prose, payload |-> payload]

\* the strings of the model that hold a "{" before a "}"
BracedTexts == {"a {b} c"}

\* line 132, /\{[\s\S]*\}/ on the JSON text of a payload: what the span from
\* the first "{" to the last "}" decodes to.  It is the payload when that is
\* an object, the object inside when arrays of one element hold it, no JSON
\* when the braces are those of a string, and there is no span without braces.
NoSpan == [t |-> "no span"]
RECURSIVE BraceSpan(_)
BraceSpan(v) ==
    CASE v.t = "object" -> v
      [] v.t = "array" /\ "only" \in DOMAIN v -> BraceSpan(v.only)
      [] v.t = "string" /\ v.s \in BracedTexts -> Garbage
      [] OTHER -> NoSpan

\* lines 132-134 and 259-261: the fenced block if there is one, else the span
\* from the first "{" to the last "}", else the whole text; then JSON.parse.
\* The result is [ok, value]; ok = FALSE stands for the SyntaxError.
ParseReply(text) ==
    LET span == BraceSpan(text.payload)
        jsonText ==
            IF text.fence THEN text.payload
            ELSE IF span # NoSpan THEN span
            ELSE IF text.prose THEN Garbage
            ELSE text.payload
    IN IF jsonText.t = "garbage"
       THEN [ok |-> FALSE, value |-> Undefined]
       ELSE [ok |-> TRUE, value |-> jsonText]

\* reading a property: a TypeError on null/undefined, undefined on a primitive
CanRead(v) == v.t \notin {"null", "undefined"}
\* assigning a property in strict mode (an ES module): only objects accept it
CanAssign(v) == v.t \in {"object", "array"}

\* error.message of the TypeErrors the engine throws
ReadError(v, name) ==
    "Cannot read properties of " \o v.t \o " (reading '" \o name \o "')"
SetError(v, name) ==
    "Cannot set properties of " \o v.t \o " (setting '" \o name \o "')"
CreateError(v, name) ==
    "Cannot create property '" \o name \o "' on " \o v.t
        \o " '" \o ValueText(v) \o "'"
ConvertError == "Cannot convert object to primitive value"

\* error.message of `v.name = ...` on a value that is not an object
AssignError(v, name) ==
    IF CanRead(v) THEN CreateError(v, name) ELSE SetError(v, name)

-----------------------------------------------------------------------------
(* POST /api/evaluate *)

HumanFaceVoice == "Human Face + Voice"
OnlyVoice == "Only Voice"
NoVoice == "No Voice"

CameraSentence == "Enable your camera to receive full confidence scoring and feedback."
SpeakSentence == "Please speak clearly into your microphone to receive clarity feedback."
StartSentence == "Start speaking and enable your camera for a complete evaluation."

\* lines 88-94
ServerMode(hasFace, hasVoice) ==
    IF ToBoolean(hasFace) /\ ToBoolean(hasVoice) THEN HumanFaceVoice
    ELSE IF ~ToBoolean(hasFace) /\ ToBoolean(hasVoice) THEN OnlyVoice
    ELSE NoVoice

\* lines 73-78
NoSpeechData(body) == ~ToBoolean(body.transcript) /\ ~ToBoolean(body.hasVoice)

\* only the client handle is tested, not the model handle
NotConfiguredClientOnly == ~genAI

\* lines 81-86
NotConfigured == ~genAI \/ ~model

\* evaluation.name: undefined when the property is missing or the value is
\* a primitive
Field(evaluation, name) ==
    IF evaluation.t \in {"object", "array"} /\ name \in DOMAIN evaluation
    THEN evaluation[name]
    ELSE Undefined

\* evaluation.name = value, on an object or an array
Assign(evaluation, name, value) ==
    [f \in DOMAIN evaluation \cup {name} |->
        IF f = name THEN value ELSE evaluation[f]]

\* the "No Voice" branch replaces the two sentences and leaves the scores
AdjustKeepsScores(mode, evaluation) ==
    IF mode = "Only Voice" THEN
        IF ~CanRead(evaluation)
        THEN [ok |-> FALSE, value |-> evaluation,
              error |-> ReadError(evaluation, "confidence")]
        ELSE IF ~CanConvert(Field(evaluation, "confidence"))
        THEN [ok |-> FALSE, value |-> evaluation, error |-> ConvertError]
        ELSE IF ~CanAssign(evaluation)
        THEN [ok |-> FALSE, value |-> evaluation,
              error |-> AssignError(evaluation, "confidence")]
        ELSE [ok |-> TRUE, error |-> "",
              value |->
                Assign(
                  Assign(evaluation, "confidence",
                         MathRound(TimesHalf(Field(evaluation, "confidence")))),
                  "confidenceFeedback",
                  Str("Enable your camera to receive full confidence scoring and feedback."))]
    ELSE IF mode = "No Voice" THEN
        IF CanAssign(evaluation)
        THEN [ok |-> TRUE, error |-> "",
              value |->
                Assign(
                  Assign(evaluation, "clarityFeedback",
                    Str("Please speak clearly into your microphone to receive clarity feedback.")),
                  "confidenceFeedback",
                  Str("Start speaking and enable your camera for a complete evaluation."))]
        ELSE [ok |-> FALSE, value |-> evaluation,
              error |-> AssignError(evaluation, "clarityFeedback")]
    ELSE [ok |-> CanRead(evaluation), value |-> evaluation,
          error |-> ReadError(evaluation, "clarity")]

\* lines 140-149: the evaluation after the mode-based adjustments, as
\* [ok, value, error]; ok = FALSE stands for a TypeError and error is its
\* message.  Line 142 reads evaluation.confidence, multiplies it and then
\* assigns; line 145 assigns; with neither branch taken the first access is
\* the read of evaluation.clarity in line 156.
Adjust(mode, evaluation) ==
    IF mode = OnlyVoice THEN
        IF ~CanRead(evaluation)
        THEN [ok |-> FALSE, value |-> evaluation,
              error |-> ReadError(evaluation, "confidence")]
        ELSE IF ~CanConvert(Field(evaluation, "confidence"))
        THEN [ok |-> FALSE, value |-> evaluation, error |-> ConvertError]
        ELSE IF ~CanAssign(evaluation)
        THEN [ok |-> FALSE, value |-> evaluation,
              error |-> AssignError(evaluation, "confidence")]
        ELSE [ok |-> TRUE, error |-> "",
              value |->
                Assign(
                  Assign(evaluation, "confidence",
                         MathRound(TimesHalf(Field(evaluation, "confidence")))),
                  "confidenceFeedback", Str(CameraSentence))]
    ELSE IF mode = NoVoice THEN
        IF CanAssign(evaluation)
        THEN [ok |-> TRUE, error |-> "",
              value |->
                Assign(
                  Assign(
                    Assign(
                      Assign(evaluation, "clarity", IntNum(0)),
                      "confidence", IntNum(0)),
                    "clarityFeedback", Str(SpeakSentence)),
                  "confidenceFeedback", Str(StartSentence))]
        ELSE [ok |-> FALSE, value |-> evaluation,
              error |-> AssignError(evaluation, "clarity")]
    ELSE [ok |-> CanRead(evaluation), value |-> evaluation,
          error |-> ReadError(evaluation, "clarity")]

\* lines 156-157: Math.max can convert both scores
CanClamp(evaluation) ==
    /\ CanConvert(Field(evaluation, "clarity"))
    /\ CanConvert(Field(evaluation, "confidence"))

\* lines 156-157
Clamp(score) == MathMin(IntNum(10), MathMax(IntNum(0), score))

\* lines 152-162
EvaluationResponse(mode, evaluation) ==
    [status |-> 200, success |-> TRUE, mode |-> mode,
     evaluation |-> [
        clarity |-> JsonValue(Clamp(Field(evaluation, "clarity"))),
        confidence |-> JsonValue(Clamp(Field(evaluation, "confidence"))),
        clarityFeedback |-> Field(evaluation, "clarityFeedback"),
        confidenceFeedback |-> Field(evaluation, "confidenceFeedback"),
        analysis |-> Field(evaluation, "analysis")]]

ErrorResponse(status, message) ==
    [status |-> status, success |-> FALSE, error |-> message]

\* lines 164-170
EvaluateFailure(message) ==
    ErrorResponse(500, IF message = "" THEN "Failed to evaluate speech" ELSE message)

\* a reply that cannot be decoded is answered with a default evaluation
EvaluateWithModelDefault(mode, reply) ==
    IF reply.k = "throws" THEN [res |-> EvaluateFailure(reply.message), calls |-> 1]
    ELSE LET parsed == ParseReply(reply) IN
         IF ~parsed.ok
         THEN [res |-> EvaluationResponse(mode,
                        [t |-> "object", clarity |-> IntNum(5), confidence |-> IntNum(5)]),
               calls |-> 1]
         ELSE LET adjusted == Adjust(mode, parsed.value) IN
              IF ~adjusted.ok
              THEN [res |-> EvaluateFailure(adjusted.error), calls |-> 1]
              ELSE IF ~CanClamp(adjusted.value)
              THEN [res |-> EvaluateFailure(ConvertError), calls |-> 1]
              ELSE [res |-> EvaluationResponse(mode, adjusted.value), calls |-> 1]

\* lines 123-170: from the model call to the response; [res, calls].  A
\* TypeError of lines 142-157 is answered by the catch with its message.
EvaluateWithModel(mode, reply) ==
    IF reply.k = "throws" THEN [res |-> EvaluateFailure(reply.message), calls |-> 1]
    ELSE LET parsed == ParseReply(reply) IN
         IF ~parsed.ok
         THEN [res |-> EvaluateFailure("Invalid response format from AI"), calls |-> 1]
         ELSE LET adjusted == Adjust(mode, parsed.value) IN
              IF ~adjusted.ok
              THEN [res |-> EvaluateFailure(adjusted.error), calls |-> 1]
              ELSE IF ~CanClamp(adjusted.value)
              THEN [res |-> EvaluateFailure(ConvertError), calls |-> 1]
              ELSE [res |-> EvaluationResponse(mode, adjusted.value), calls |-> 1]

\* lines 97-122: the template converts the transcript, when it is truthy,
\* to a string (audioFeatures goes through JSON.stringify, which converts
\* every JSON value)
EvaluatePromptThrows(body) ==
    ToBoolean(body.transcript) /\ ~CanConvert(body.transcript)

\* lines 68-124: both checks pass and the prompt is built, so that the model
\* is called
ReachesModel(body) ==
    ~NoSpeechData(body) /\ ~NotConfigured /\ ~EvaluatePromptThrows(body)

\* the configuration is checked before the input
EvaluateConfigFirst(body, reply) ==
    IF NotConfigured
    THEN [res |-> ErrorResponse(503,
              "Gemini AI not configured. Please add GEMINI_API_KEY to .env file"),
          calls |-> 0]
    ELSE IF NoSpeechData(body)
    THEN [res |-> ErrorResponse(400, "No speech data provided"), calls |-> 0]
    ELSE IF EvaluatePromptThrows(body)
    THEN [res |-> EvaluateFailure(ConvertError), calls |-> 0]
    ELSE EvaluateWithModel(ServerMode(body.hasFace, body.hasVoice), reply)

Evaluate(body, reply) ==
    IF NoSpeechData(body)
    THEN [res |-> ErrorResponse(400, "No speech data provided"), calls |-> 0]
    ELSE IF NotConfigured
    THEN [res |-> ErrorResponse(503,
              "Gemini AI not configured. Please add GEMINI_API_KEY to .env file"),
          calls |-> 0]
    ELSE IF EvaluatePromptThrows(body)
    THEN [res |-> EvaluateFailure(ConvertError), calls |-> 0]
    ELSE EvaluateWithModel(ServerMode(body.hasFace, body.hasVoice), reply)

-----------------------------------------------------------------------------
(* POST /api/analyze-audio *)

\* lines 221-227
AnalyzeFailure(message) ==
    ErrorResponse(500, IF message = "" THEN "Failed to analyze audio" ELSE message)

\* lines 174-228: the handler, after upload.single('audio') has set or left
\* unset req.file; the text of the model goes into the response as it is
AnalyzeAudio(body, reply) ==
    IF ~body.file
    THEN [res |-> ErrorResponse(400, "No audio file provided"), calls |-> 0]
    ELSE IF NotConfigured
    THEN [res |-> ErrorResponse(503, "Gemini AI not configured"), calls |-> 0]
    ELSE IF reply.k = "throws"
    THEN [res |-> AnalyzeFailure(reply.message), calls |-> 1]
    ELSE [res |-> [status |-> 200, success |-> TRUE, analysis |-> reply],
          calls |-> 1]

-----------------------------------------------------------------------------
(* POST /api/feedback *)

clarityTips == <<
    "Try to articulate each word more clearly and avoid mumbling.",
    "Speak with more structured sentences to boost clarity.",
    "Reduce filler words like 'um' and 'uh' for better clarity.",
    "Practice enunciating consonants more precisely.",
    "Slow down your speaking pace to improve clarity.",
    "Focus on completing your thoughts before moving to the next point.">>

confidenceTips == <<
    "Maintain eye contact with the camera to project confidence.",
    "Reduce pauses and hesitations while speaking.",
    "Speak with a stronger, more assertive tone.",
    "Keep your posture upright and face the camera directly.",
    "Practice deep breathing to reduce nervousness in your voice.",
    "Use hand gestures naturally to enhance your message.">>

\* Math.random() is k / RandSteps for k in 0 .. RandSteps-1
RandSteps == 6
Randoms == 0 .. (RandSteps - 1)

\* tips[Math.floor(Math.random() * tips.length)]
RandomPick(tips, k) == tips[((k * Len(tips)) \div RandSteps) + 1]

\* the "Only Voice" override of confidenceTip is missing
getFallbackFeedbackNoOverride(clarity, confidence, mode, k1, k2) ==
    IF mode = Str("No Voice")
    THEN [t |-> "object",
          clarityTip |-> Str(SpeakSentence),
          confidenceTip |-> Str(StartSentence)]
    ELSE [t |-> "object",
          clarityTip |-> Str(RandomPick(clarityTips, k2)),
          confidenceTip |-> Str(RandomPick(confidenceTips, k1))]

\* lines 278-312; k1 and k2 are the two draws of Math.random(), in order
getFallbackFeedback(clarity, confidence, mode, k1, k2) ==
    LET confidenceTip == RandomPick(confidenceTips, k1) IN
    IF mode = Str(OnlyVoice)
    THEN [t |-> "object",
          clarityTip |-> Str(RandomPick(clarityTips, k2)),
          confidenceTip |-> Str(CameraSentence)]
    ELSE IF mode = Str(NoVoice)
    THEN [t |-> "object",
          clarityTip |-> Str(SpeakSentence),
          confidenceTip |-> Str(StartSentence)]
    ELSE [t |-> "object",
          clarityTip |-> Str(RandomPick(clarityTips, k2)),
          confidenceTip |-> Str(confidenceTip)]

\* lines 237-240, 263-266, 270-273
FeedbackResponse(feedback) ==
    [status |-> 200, success |-> TRUE, feedback |-> feedback]

\* lines 244-252: the template converts the three fields to strings
FeedbackPromptThrows(body) ==
    ~(CanConvert(body.clarity) /\ CanConvert(body.confidence)
        /\ CanConvert(body.mode))

\* lines 231-254: the configuration is there and the prompt is built, so
\* that the model is called
FeedbackReachesModel(body) == ~NotConfigured /\ ~FeedbackPromptThrows(body)

\* lines 231-275: the handler; [res, calls].  A TypeError of the template is
\* answered by the catch, as a failure of the model is.
Feedback(body, reply, k1, k2) ==
    LET fallback ==
            getFallbackFeedback(body.clarity, body.confidence, body.mode, k1, k2)
    IN IF ~FeedbackReachesModel(body)
       THEN [res |-> FeedbackResponse(fallback), calls |-> 0]
       ELSE IF reply.k = "throws"
       THEN [res |-> FeedbackResponse(fallback), calls |-> 1]
       ELSE LET parsed == ParseReply(reply) IN
            IF ~parsed.ok
            THEN [res |-> FeedbackResponse(fallback), calls |-> 1]
            ELSE [res |-> FeedbackResponse(parsed.value), calls |-> 1]

\* the fallback is computed: the draws of Math.random() matter
FeedbackFallsBack(reply) ==
    NotConfigured \/ reply.k = "throws" \/ ~ParseReply(reply).ok

-----------------------------------------------------------------------------
(* Requests and replies the model draws *)

NoReply == [k |-> "none"]

\* values the upstream model may put where a score is expected
ScoreNumbers ==
    {Num(2 * h) : h \in (0 - NegHalves) .. MaxHalves} \cup {IntNum(LargeScore)}
ScoreValues ==
    ScoreNumbers \cup
    {Undefined, Null, Bool(TRUE), Str("8"), Str("high"), PlainObject,
     StubbornObject, PlainArray, ArrayOfOne(IntNum(5)),
     ArrayOfOne(ArrayOfOne(IntNum(5))), ArrayOfOne(StubbornObject)}

\* lines 142-157 handle the two scores one by one: each value is drawn
\* with itself, with the clarity 8 and with the confidence 7
ScorePairs ==
    {p \in ScoreValues \X ScoreValues :
        p[1] = p[2] \/ p[1] = IntNum(8) \/ p[2] = IntNum(7)}

ModelTexts == {Undefined, Str("model text")}

EvaluationObjects ==
    {[t |-> "object", clarity |-> p[1], confidence |-> p[2],
      clarityFeedback |-> x, confidenceFeedback |-> x, analysis |-> x] :
        p \in ScorePairs, x \in ModelTexts}

\* JSON values that are not objects, and text that is not JSON
OtherPayloads ==
    {Garbage, Null, IntNum(5), Str("fine"), Bool(TRUE), PlainArray,
     Str("a {b} c"),
     ArrayOfOne([t |-> "object", clarity |-> IntNum(8),
                 confidence |-> IntNum(7)])}

EvaluateReplies ==
    {Throws}
    \cup {Text(f, p, v) : f \in BOOLEAN, p \in BOOLEAN, v \in OtherPayloads}
    \cup {Text(f, TRUE, v) : f \in BOOLEAN, v \in EvaluationObjects}

EvaluateBodies ==
    [transcript : {Undefined, Str(""), Str("Hello"), StubbornObject},
     hasFace : {Undefined, Bool(FALSE), Bool(TRUE)},
     hasVoice : {Undefined, Bool(FALSE), Bool(TRUE)}]

TipValues == {Undefined, Str("model tip"), IntNum(3)}

FeedbackObjects ==
    {[t |-> "object", clarityTip |-> a, confidenceTip |-> b, note |-> n] :
        a \in TipValues, b \in TipValues, n \in {Undefined, Str("extra")}}

FeedbackReplies ==
    {Throws}
    \cup {Text(f, p, v) : f \in BOOLEAN, p \in BOOLEAN, v \in OtherPayloads}
    \cup {Text(f, TRUE, v) : f \in BOOLEAN, v \in FeedbackObjects}

FeedbackBodies ==
    {[clarity |-> s[1], confidence |-> s[2], mode |-> m] :
        s \in {<<Undefined, Undefined>>, <<IntNum(8), IntNum(7)>>,
               <<Str("high"), Null>>},
        m \in {Undefined, Str(HumanFaceVoice), Str(OnlyVoice), Str(NoVoice),
               Str("Video")}}
    \cup {[clarity |-> StubbornObject, confidence |-> IntNum(7),
            mode |-> Str(OnlyVoice)],
           [clarity |-> IntNum(8), confidence |-> IntNum(7),
            mode |-> StubbornObject]}

\* line 174: multer leaves req.file unset when the request has no file part,
\* else req.file holds the part named audio with its mimetype ("" when the
\* part gives none)
AnalyzeBodies ==
    {[file |-> FALSE, mimetype |-> ""]}
    \cup {[file |-> TRUE, mimetype |-> m] : m \in {"", "audio/ogg"}}

\* lines 203-214: the call throws, one without a message included, or gives
\* a text
AnalyzeReplies ==
    {Throws, [k |-> "throws", message |-> ""]}
    \cup {Text(f, p, v) : f \in BOOLEAN, p \in BOOLEAN, v \in OtherPayloads}

-----------------------------------------------------------------------------
(* The server *)

\* The three AI handlers are async: each returns to the event loop at
\* `await model.generateContent(...)` and at `await result.response`, and
\* other requests are handled in between.  `waiting` holds the handlers that
\* are suspended; `exch` holds the request and the response of the handler
\* that answered last, until EndExchange forgets it.  A step that answers or
\* admits a request is taken when exch is forgotten, which excludes no order
\* of the server's steps: EndExchange is always possible and changes nothing
\* of the server.  The handlers share no variable they write.

NoExchange == [route |-> "none"]

\* lines 17-32: the key is missing; or the client and the model handle are
\* built; or the constructor throws; or getGenerativeModel throws
ServerInit ==
    /\ envKey \in BOOLEAN
    /\ genAI \in BOOLEAN
    /\ model \in BOOLEAN
    /\ (~envKey => ~genAI)
    /\ (~genAI => ~model)
    /\ exch = NoExchange
    /\ waiting = <<>>

\* line 39 and lines 315-321: a body express.json() cannot parse goes to the
\* error-handling middleware, whatever the route
BodyParseFailure(route) ==
    [route |-> route, parsed |-> FALSE, body |-> Undefined, reply |-> NoReply,
     res |-> ErrorResponse(500, "Internal server error"), calls |-> 0]

Exchange(route, body, reply, out) ==
    [route |-> route, parsed |-> TRUE, body |-> body, reply |-> reply,
     res |-> out.res, calls |-> out.calls]

\* the sequence without its i-th element
RemoveAt(seq, i) == SubSeq(seq, 1, i - 1) \o SubSeq(seq, i + 1, Len(seq))

\* a handler suspended at `await model.generateContent(...)`
Suspended(route, body) ==
    [route |-> route, body |-> body, at |-> "generateContent"]

\* lines 68-124: the request arrives; the handler answers 400 or 503 at
\* once or calls the model and is suspended
PostEvaluate ==
    /\ exch = NoExchange
    /\ \/ exch' = BodyParseFailure("/api/evaluate") /\ UNCHANGED waiting
       \/ \E body \in EvaluateBodies :
            IF ReachesModel(body)
            THEN /\ Len(waiting) < MaxOpen
                 /\ waiting' = Append(waiting, Suspended("/api/evaluate", body))
                 /\ UNCHANGED exch
            ELSE /\ exch' = Exchange("/api/evaluate", body, NoReply,
                                     Evaluate(body, NoReply))
                 /\ UNCHANGED waiting
    /\ UNCHANGED <<envKey, genAI, model>>
    /\ UNCHANGED <<browserVars, trial>>

\* lines 231-254: the request arrives; without a configuration, or when the
\* template throws, the handler answers with the fallback at once, else it
\* calls the model and is suspended
PostFeedback ==
    /\ exch = NoExchange
    /\ \/ exch' = BodyParseFailure("/api/feedback") /\ UNCHANGED waiting
       \/ \E body \in FeedbackBodies :
            IF ~FeedbackReachesModel(body)
            THEN /\ \E k1 \in Randoms, k2 \in Randoms :
                      exch' = Exchange("/api/feedback", body, NoReply,
                                       Feedback(body, NoReply, k1, k2))
                 /\ UNCHANGED waiting
            ELSE /\ Len(waiting) < MaxOpen
                 /\ waiting' = Append(waiting, Suspended("/api/feedback", body))
                 /\ UNCHANGED exch
    /\ UNCHANGED <<envKey, genAI, model>>
    /\ UNCHANGED <<browserVars, trial>>

\* lines 174-203.  A request that express.json() (line 39) or
\* upload.single('audio') (line 174) rejects goes to the error-handling
\* middleware of lines 315-321; else the handler answers 400 or 503 at once
\* or calls the model and is suspended.
PostAnalyzeAudio ==
    /\ exch = NoExchange
    /\ \/ exch' = BodyParseFailure("/api/analyze-audio") /\ UNCHANGED waiting
       \/ \E body \in AnalyzeBodies :
            IF body.file /\ ~NotConfigured
            THEN /\ Len(waiting) < MaxOpen
                 /\ waiting' = Append(waiting,
                                      Suspended("/api/analyze-audio", body))
                 /\ UNCHANGED exch
            ELSE /\ exch' = Exchange("/api/analyze-audio", body, NoReply,
                                     AnalyzeAudio(body, NoReply))
                 /\ UNCHANGED waiting
    /\ UNCHANGED <<envKey, genAI, model>>
    /\ UNCHANGED <<browserVars, trial>>

\* the handler of w runs from the model's reply to its response: lines
\* 126-170, 214-227, 256-274
Answers(w, replies) ==
    IF w.route = "/api/evaluate"
    THEN \E reply \in EvaluateReplies \cap replies :
            exch' = Exchange(w.route, w.body, reply, Evaluate(w.body, reply))
    ELSE IF w.route = "/api/feedback"
    THEN \E reply \in FeedbackReplies \cap replies :
            IF FeedbackFallsBack(reply)
            THEN \E k1 \in Randoms, k2 \in Randoms :
                    exch' = Exchange(w.route, w.body, reply,
                                     Feedback(w.body, reply, k1, k2))
            ELSE exch' = Exchange(w.route, w.body, reply,
                                  Feedback(w.body, reply, 0, 0))
    ELSE \E reply \in AnalyzeReplies \cap replies :
            exch' = Exchange(w.route, w.body, reply,
                             AnalyzeAudio(w.body, reply))

\* the replies that are an exception
Rejections == {r \in EvaluateReplies \cup FeedbackReplies \cup AnalyzeReplies :
                r.k = "throws"}

\* lines 124, 203, 254: `await model.generateContent(...)` of a suspended
\* handler settles: rejected, the catch answers; fulfilled, the handler goes
\* on to `await result.response` and is suspended again
GenerateContentSettles ==
    /\ \E i \in 1 .. Len(waiting) :
         /\ waiting[i].at = "generateContent"
         /\ \/ /\ waiting' = [waiting EXCEPT ![i].at = "response"]
               /\ UNCHANGED exch
            \/ /\ exch = NoExchange
               /\ waiting' = RemoveAt(waiting, i)
               /\ Answers(waiting[i], Rejections)
    /\ UNCHANGED <<envKey, genAI, model>>
    /\ UNCHANGED <<browserVars, trial>>

\* lines 125-170, 213-227, 255-274: `await result.response` of a suspended
\* handler is over; response.text() throws or gives the text, and the
\* handler answers
ResponseSettles ==
    /\ exch = NoExchange
    /\ \E i \in 1 .. Len(waiting) :
         /\ waiting[i].at = "response"
         /\ waiting' = RemoveAt(waiting, i)
         /\ Answers(waiting[i],
                    EvaluateReplies \cup FeedbackReplies \cup AnalyzeReplies)
    /\ UNCHANGED <<envKey, genAI, model>>
    /\ UNCHANGED <<browserVars, trial>>

\* lines 324-329: a request to any other path
NotFound ==
    [status |-> 404, success |-> FALSE, error |-> "Endpoint not found"]

OtherRoute ==
    /\ exch = NoExchange
    /\ \/ exch' = BodyParseFailure("/other")
       \/ exch' = [route |-> "/other", parsed |-> TRUE, body |-> Undefined,
                   reply |-> NoReply, res |-> NotFound, calls |-> 0]
    /\ UNCHANGED <<envKey, genAI, model, waiting>>
    /\ UNCHANGED <<browserVars, trial>>

\* lines 49-55: the body of the answer (its timestamp, the time of the
\* request, is left out)
Health ==
    [status |-> 200,
     body |-> [status |-> "ok", geminiConfigured |-> envKey]]

\* lines 58-65
ApiStatus ==
    [status |-> 200, success |-> TRUE, geminiAvailable |-> genAI]

\* a request without a body to a GET route
GetExchange(route, res) ==
    [route |-> route, parsed |-> TRUE, body |-> Undefined, reply |-> NoReply,
     res |-> res, calls |-> 0]

\* lines 49-55
GetHealth ==
    /\ exch = NoExchange
    /\ exch' = GetExchange("/health", Health)
    /\ UNCHANGED <<envKey, genAI, model, waiting>>
    /\ UNCHANGED <<browserVars, trial>>

\* lines 58-65
GetApiStatus ==
    /\ exch = NoExchange
    /\ exch' = GetExchange("/api/status", ApiStatus)
    /\ UNCHANGED <<envKey, genAI, model, waiting>>
    /\ UNCHANGED <<browserVars, trial>>

\* the response has been sent; the server holds nothing of the exchange
EndExchange ==
    /\ exch # NoExchange
    /\ exch' = NoExchange
    /\ UNCHANGED <<envKey, genAI, model, waiting>>
    /\ UNCHANGED <<browserVars, trial>>

ServerNext ==
    \/ GetHealth
    \/ GetApiStatus
    \/ PostEvaluate
    \/ PostFeedback
    \/ PostAnalyzeAudio
    \/ GenerateContentSettles
    \/ ResponseSettles
    \/ OtherRoute
    \/ EndExchange

-----------------------------------------------------------------------------
(* The browser: class SpeakingEvaluator *)

\* lines 12-31, and the buttons as stopPractice leaves them
BrowserInit ==
    /\ state = [isRecording |-> FALSE, faceDetected |-> FALSE,
                voiceDetected |-> FALSE, evaluationCount |-> 0,
                totalClarity |-> IntNum(0), totalConfidence |-> IntNum(0),
                backendAvailable |-> FALSE]
    /\ handles = [stream |-> FALSE, audioContext |-> FALSE,
                  faceDetectionInterval |-> FALSE, sessionInterval |-> FALSE]
    /\ live = [streams |-> 0, contexts |-> 0, faceIntervals |-> 0,
               sessionIntervals |-> 0, drawLoops |-> 0]
    /\ buttons = [start |-> FALSE, stop |-> TRUE, evaluate |-> TRUE]
    /\ statusProbe = "pending"
    /\ mediaPending = 0
    /\ detecting = <<>>
    /\ faceSample = "none"
    /\ fetches = <<>>
    /\ shown = [source |-> "none"]
    /\ currentEmotion = "unset"

\* lines 38-58: the probe of /api/status is answered, or the fetch fails
CheckBackendStatus ==
    /\ statusProbe = "pending"
    /\ statusProbe' = "done"
    /\ \E reached \in BOOLEAN :
         state' = [state EXCEPT !.backendAvailable =
                     IF reached
                     THEN (IF ApiStatus.success THEN TRUE ELSE @)
                     ELSE FALSE]
    /\ UNCHANGED <<currentEmotion, faceSample, handles, live, buttons, mediaPending, detecting, fetches, shown>>
    /\ UNCHANGED <<serverVars, trial>>

\* byte magnitudes the analyser may report as average and as maximum
AudioBytes == {0, 13, 17, 22}

\* Math.round((x / 255) * 60)
ToDb(x) == (120 * x + 255) \div 510

\* Math.round(maxDb * 0.7) in double arithmetic: 45 * 0.7 is
\* 31.499999999999996, every other product rounds as the exact one does
RoundSevenTenths(maxDb) ==
    IF maxDb = 45 THEN 31 ELSE (7 * maxDb + 5) \div 10

\* lines 247-250
FinalDb(average, maxValue) ==
    LET displayDb == ToDb(average)
        maxDb == ToDb(maxValue)
    IN IF displayDb >= RoundSevenTenths(maxDb)
       THEN displayDb ELSE RoundSevenTenths(maxDb)

\* line 253
VoiceDetected(average, maxValue) == FinalDb(average, maxValue) > 3

\* the Soft band starts at 3
EmotionToneSoftFromThree(finalDb) ==
    IF finalDb > 40 THEN "Energetic"
    ELSE IF finalDb > 25 THEN "Confident"
    ELSE IF finalDb > 10 THEN "Calm"
    ELSE IF finalDb >= 3 THEN "Soft"
    ELSE "Neutral"

\* lines 256-265
EmotionTone(finalDb) ==
    IF finalDb > 40 THEN "Energetic"
    ELSE IF finalDb > 25 THEN "Confident"
    ELSE IF finalDb > 10 THEN "Calm"
    ELSE IF finalDb > 3 THEN "Soft"
    ELSE "Neutral"

\* lines 238-267: what one run of draw() computes from the frequency data
DrawSample(average, maxValue) ==
    [finalDb |-> FinalDb(average, maxValue),
     voiceDetected |-> VoiceDetected(average, maxValue),
     emotionTone |-> EmotionTone(FinalDb(average, maxValue))]

\* what one run of draw() may store in voiceDetected and currentEmotion
Samples ==
    {[voiceDetected |-> DrawSample(sample[1], sample[2]).voiceDetected,
      emotionTone |-> DrawSample(sample[1], sample[2]).emotionTone] :
        sample \in {p \in AudioBytes \X AudioBytes : p[1] <= p[2]}}

\* lines 77-85: a click on Start; startPractice waits for getUserMedia
StartClick ==
    /\ ~buttons.start
    /\ mediaPending < MaxMediaPending
    /\ live.streams + mediaPending < MaxStreams
    /\ mediaPending' = mediaPending + 1
    /\ UNCHANGED <<currentEmotion, faceSample, state, handles, live, buttons, statusProbe, detecting,
                   fetches, shown>>
    /\ UNCHANGED <<serverVars, trial>>

\* lines 122-125: getUserMedia is rejected; the alert is shown
MediaDenied ==
    /\ mediaPending > 0
    /\ mediaPending' = mediaPending - 1
    /\ UNCHANGED <<currentEmotion, faceSample, state, handles, live, buttons, statusProbe, detecting,
                   fetches, shown>>
    /\ UNCHANGED <<serverVars, trial>>

\* lines 86-120 with 200-213, 215-229, 337-394, 577-586: getUserMedia is
\* granted.  When setupAudioAnalysis throws, the catch of lines 122-125 ends
\* the call after isRecording was set: the constructor of line 202 throws
\* ("no context"), or createAnalyser or createMediaStreamSource does (lines
\* 203, 207: "no source"), and then line 202 has stored the new context.
\* Otherwise the first draw() runs inside the call.
AudioSetups == {"done", "no context", "no source"}

MediaGranted ==
    /\ mediaPending > 0
    /\ live.drawLoops < MaxDrawLoops
    /\ mediaPending' = mediaPending - 1
    /\ \E setup \in AudioSetups, sample \in Samples :
        /\ IF setup = "done"
           THEN /\ state' = [state EXCEPT
                        !.isRecording = TRUE,
                        !.voiceDetected = sample.voiceDetected]
                /\ currentEmotion' = sample.emotionTone
                /\ handles' = [stream |-> TRUE, audioContext |-> TRUE,
                               faceDetectionInterval |-> TRUE,
                               sessionInterval |-> TRUE]
                /\ live' = [streams |-> live.streams + 1,
                            contexts |-> live.contexts + 1,
                            faceIntervals |-> live.faceIntervals + 1,
                            sessionIntervals |-> live.sessionIntervals + 1,
                            drawLoops |-> live.drawLoops + 1]
                /\ buttons' = [start |-> TRUE, stop |-> FALSE, evaluate |-> FALSE]
           ELSE /\ sample.voiceDetected = VoiceDetected(0, 0)
                /\ state' = [state EXCEPT !.isRecording = TRUE]
                /\ UNCHANGED currentEmotion
                /\ handles' = [handles EXCEPT
                        !.stream = TRUE,
                        !.audioContext = (setup = "no source") \/ @]
                /\ live' = [live EXCEPT
                        !.streams = @ + 1,
                        !.contexts = IF setup = "no source" THEN @ + 1 ELSE @]
                /\ UNCHANGED buttons
    /\ UNCHANGED <<statusProbe, detecting, faceSample, fetches, shown>>
    /\ UNCHANGED <<serverVars, trial>>

\* lines 145-198: a click on Stop
StopPractice ==
    /\ ~buttons.stop
    /\ state' = [state EXCEPT !.isRecording = FALSE, !.faceDetected = FALSE,
                              !.voiceDetected = FALSE]
    /\ handles' = [stream |-> FALSE, audioContext |-> FALSE,
                   faceDetectionInterval |-> FALSE, sessionInterval |-> FALSE]
    /\ live' = [streams |-> IF handles.stream THEN live.streams - 1
                            ELSE live.streams,
                contexts |-> IF handles.audioContext THEN live.contexts - 1
                             ELSE live.contexts,
                faceIntervals |-> IF handles.faceDetectionInterval
                                  THEN live.faceIntervals - 1
                                  ELSE live.faceIntervals,
                sessionIntervals |-> IF handles.sessionInterval
                                     THEN live.sessionIntervals - 1
                                     ELSE live.sessionIntervals,
                drawLoops |-> live.drawLoops]
    /\ buttons' = [start |-> FALSE, stop |-> TRUE, evaluate |-> TRUE]
    /\ faceSample' = "none"
    /\ UNCHANGED <<currentEmotion, statusProbe, mediaPending, detecting, fetches, shown>>
    /\ UNCHANGED <<serverVars, trial>>

\* lines 223-268: a scheduled draw callback runs; it ends its loop when
\* isRecording is false, else it reschedules itself and samples the analyser
DrawTick ==
    /\ live.drawLoops > 0
    /\ IF ~state.isRecording
       THEN /\ live' = [live EXCEPT !.drawLoops = @ - 1]
            /\ UNCHANGED <<state, currentEmotion>>
       ELSE /\ \E sample \in Samples :
                 /\ state' = [state EXCEPT
                                !.voiceDetected = sample.voiceDetected]
                 /\ currentEmotion' = sample.emotionTone
            /\ UNCHANGED live
    /\ UNCHANGED <<handles, buttons, statusProbe, mediaPending, detecting,
                   faceSample, fetches, shown>>
    /\ UNCHANGED <<serverVars, trial>>

\* lines 342-349 and 393: an installed interval fires; detectFace starts a
\* detection when isRecording holds
FaceTick ==
    /\ live.faceIntervals > 0
    /\ state.isRecording
    /\ Len(detecting) < MaxDetecting
    /\ detecting' = Append(detecting, [overtaken |-> FALSE])
    /\ UNCHANGED <<currentEmotion, faceSample, state, handles, live, buttons,
                   statusProbe, mediaPending, fetches, shown>>
    /\ UNCHANGED <<serverVars, trial>>

\* the calls started before call i have been overtaken
Overtake(seq, i) ==
    [j \in 1 .. Len(seq) |-> IF j < i THEN [overtaken |-> TRUE] ELSE seq[j]]

\* lines 351-389: the detectSingleFace of one waiting call settles, with a
\* face, with none, or by throwing; the calls settle in any order
DetectionSettles ==
    /\ \E i \in 1 .. Len(detecting), outcome \in {"face", "none", "error"} :
         IF outcome = "error"
         THEN /\ detecting' = RemoveAt(detecting, i)
              /\ UNCHANGED <<state, faceSample>>
         ELSE /\ detecting' = RemoveAt(Overtake(detecting, i), i)
              /\ state' = [state EXCEPT !.faceDetected = (outcome = "face")]
              /\ faceSample' = IF detecting[i].overtaken
                               THEN "overtaken" ELSE "newest"
    /\ UNCHANGED <<currentEmotion, handles, live, buttons, statusProbe,
                   mediaPending, fetches, shown>>
    /\ UNCHANGED <<serverVars, trial>>

\* the "Only Voice" branch tests !hasFace alone
LocalModeVoiceUntested(hasFace, hasVoice) ==
    IF hasFace /\ hasVoice THEN "Human Face + Voice"
    ELSE IF ~hasFace THEN "Only Voice"
    ELSE "No Voice"

\* lines 482-491: the mode evaluateLocally derives
LocalMode(hasFace, hasVoice) ==
    IF hasFace /\ hasVoice THEN HumanFaceVoice
    ELSE IF ~hasFace /\ hasVoice THEN OnlyVoice
    ELSE NoVoice

\* Math.round(num / den) for den > 0
RoundRatio(num, den) == (2 * num + den) \div (2 * den)

Min(a, b) == IF a <= b THEN a ELSE b

\* lines 508-512, with Math.random() = k / RandSteps; self is this.state
calculateClarity(self, k) ==
    LET voiceBonus == IF self.voiceDetected THEN 2 ELSE 0
    IN Min(10, RoundRatio((5 + voiceBonus) * RandSteps + 3 * k, RandSteps))

\* lines 514-518; kFace and kVoice are the draws of the two branches
calculateConfidence(self, kFace, kVoice) ==
    LET baseFaceConfidence ==
            IF self.faceDetected THEN 4 * RandSteps + 3 * kFace ELSE 0
        voiceConfidence ==
            IF self.voiceDetected THEN 2 * RandSteps + 2 * kVoice ELSE 0
    IN Min(10, RoundRatio(baseFaceConfidence + voiceConfidence, RandSteps))

\* the "No Voice" branch is missing: the scores come from the calculators
LocalScoresNoFloor(self, hasFace, hasVoice, k1, k2, k3) ==
    LET mode == IF hasFace /\ hasVoice THEN "Human Face + Voice"
                ELSE IF ~hasFace /\ hasVoice THEN "Only Voice"
                ELSE "No Voice"
    IN IF mode = "Only Voice"
       THEN [mode |-> mode,
             clarity |-> calculateClarity(self, k1),
             confidence |-> RoundRatio(calculateConfidence(self, k2, k3), 2)]
       ELSE [mode |-> mode,
             clarity |-> calculateClarity(self, k1),
             confidence |-> calculateConfidence(self, k2, k3)]

\* lines 475-495: [mode, clarity, confidence] of evaluateLocally, for the
\* draws k1, k2, k3 of Math.random() in the order the branch makes them
LocalScores(self, hasFace, hasVoice, k1, k2, k3) ==
    LET mode == LocalMode(hasFace, hasVoice) IN
    IF mode = HumanFaceVoice
    THEN [mode |-> mode,
          clarity |-> calculateClarity(self, k1),
          confidence |-> calculateConfidence(self, k2, k3)]
    ELSE IF mode = OnlyVoice
    THEN [mode |-> mode,
          clarity |-> calculateClarity(self, k1),
          confidence |-> RoundRatio(calculateConfidence(self, k2, k3), 2)]
    ELSE [mode |-> mode,
          clarity |-> 5 + RoundRatio(2 * k1, RandSteps),
          confidence |-> 3 + RoundRatio(2 * k2, RandSteps)]

\* a + b, as `+=` computes it on a total and a JSON value that converts:
\* the texts joined when either primitive is a string, else the sum
Plus(a, b) ==
    LET x == ToPrimitive(a)
        y == ToPrimitive(b)
    IN IF x.t = "string" \/ y.t = "string"
       THEN Str(ToText(x) \o ToText(y))
       ELSE LET m == ToNumber(x)
                n == ToNumber(y)
            IN IF m.nan \/ n.nan THEN NaN ELSE Num(m.q + n.q)

\* the totals grow and the count stays
CountedTotalsOnly(clarity, confidence) ==
    [state EXCEPT !.totalClarity = Plus(@, clarity),
                  !.totalConfidence = Plus(@, confidence)]

\* lines 497-505 and 451-463: the statistics after a result is displayed
Counted(clarity, confidence) ==
    [state EXCEPT !.evaluationCount = @ + 1,
                  !.totalClarity = Plus(@, clarity),
                  !.totalConfidence = Plus(@, confidence)]

\* the draws of Math.random() the page is run with: the least and the
\* greatest (ScoreLocally runs evaluateLocally with every draw)
PageRandoms == {0, RandSteps - 1}

\* the click an evaluation answers: the flags evaluatePerformance captured,
\* and the failure of the backend call that led to the catch, if any
Click(hasFace, hasVoice, cause) ==
    [hasFace |-> hasFace, hasVoice |-> hasVoice, cause |-> cause]

\* lines 475-506: evaluateLocally(hasFace, hasVoice), answering click
EvaluateLocally(hasFace, hasVoice, click) ==
    \E r \in {LocalScores(state, hasFace, hasVoice, k1, k2, k3) :
                k1 \in PageRandoms, k2 \in PageRandoms, k3 \in PageRandoms} :
        /\ state' = Counted(IntNum(r.clarity), IntNum(r.confidence))
        /\ shown' = [source |-> "local", click |-> click,
                     hasFace |-> hasFace, hasVoice |-> hasVoice,
                     mode |-> r.mode,
                     clarity |-> IntNum(r.clarity),
                     confidence |-> IntNum(r.confidence)]

\* lines 409-422 and 424-444: a click on Evaluate captures the two flags and
\* either sends the request to the backend or evaluates locally
EvaluatePerformanceUpTo(cap) ==
    /\ ~buttons.evaluate
    /\ LET hasFace == state.faceDetected
           hasVoice == state.voiceDetected
       IN IF state.backendAvailable
          THEN /\ Len(fetches) < MaxInFlight
               /\ fetches' = Append(fetches,
                                [hasFace |-> hasFace, hasVoice |-> hasVoice])
               /\ UNCHANGED <<state, shown>>
          ELSE /\ state.evaluationCount < cap
               /\ EvaluateLocally(hasFace, hasVoice,
                                  Click(hasFace, hasVoice, "none"))
               /\ UNCHANGED fetches
    /\ UNCHANGED <<currentEmotion, faceSample, handles, live, buttons, statusProbe, mediaPending, detecting>>
    /\ UNCHANGED <<serverVars, trial>>

\* the runs followed end with the evaluation that makes the count MaxEvals
EvaluatePerformance == EvaluatePerformanceUpTo(MaxEvals)

\* lines 427-435: the request body (transcriptBuffer is never filled)
EvaluationData(call) ==
    [transcript |-> Str("User is speaking..."),
     hasFace |-> Bool(call.hasFace),
     hasVoice |-> Bool(call.hasVoice)]

\* replies of the upstream model to the requests the browser sends: it
\* throws, its text is not JSON, it is the JSON null, or it is an evaluation
\* with two integers, with a fraction and a missing score, or with a
\* missing score and one above 10
BrowserScores ==
    {<<IntNum(8), IntNum(7)>>, <<Num(30), Undefined>>,
     <<Undefined, IntNum(LargeScore)>>}
BrowserReplies ==
    {Throws, Text(FALSE, TRUE, Garbage), Text(TRUE, FALSE, Null)}
    \cup {Text(TRUE, TRUE,
               [t |-> "object", clarity |-> scores[1], confidence |-> scores[2],
                clarityFeedback |-> Str("model text"),
                confidenceFeedback |-> Str("model text"),
                analysis |-> Str("model text")]) :
            scores \in BrowserScores}

\* the catch also gives up the backend for the calls to come
FallBackAndDisable(call, cause) ==
    \E r \in {LocalScores(state, call.hasFace, call.hasVoice, k1, k2, k3) :
                k1 \in PageRandoms, k2 \in PageRandoms, k3 \in PageRandoms} :
        /\ state' = [Counted(IntNum(r.clarity), IntNum(r.confidence))
                        EXCEPT !.backendAvailable = FALSE]
        /\ shown' = [source |-> "local",
                     click |-> Click(call.hasFace, call.hasVoice, cause),
                     hasFace |-> call.hasFace, hasVoice |-> call.hasVoice,
                     mode |-> r.mode,
                     clarity |-> IntNum(r.clarity),
                     confidence |-> IntNum(r.confidence)]

\* lines 468-472: the catch of evaluateWithBackend
FallBack(call, cause) ==
    EvaluateLocally(call.hasFace, call.hasVoice,
                    Click(call.hasFace, call.hasVoice, cause))

\* lines 452-454 and 468-472: a score of the response does not convert, so
\* that `+=` throws after the count (and the total before it) grew, and the
\* catch evaluates locally
FallBackAfterCount(call, res) ==
    LET counted ==
            [state EXCEPT
                !.evaluationCount = @ + 1,
                !.totalClarity =
                    IF CanConvert(res.evaluation.clarity)
                    THEN Plus(@, res.evaluation.clarity) ELSE @]
    IN \E r \in {LocalScores(counted, call.hasFace, call.hasVoice, k1, k2, k3) :
                    k1 \in PageRandoms, k2 \in PageRandoms, k3 \in PageRandoms} :
        /\ state' = [counted EXCEPT
                        !.evaluationCount = @ + 1,
                        !.totalClarity = Plus(@, IntNum(r.clarity)),
                        !.totalConfidence = Plus(@, IntNum(r.confidence))]
        /\ shown' = [source |-> "local",
                     click |-> Click(call.hasFace, call.hasVoice, "conversion"),
                     hasFace |-> call.hasFace, hasVoice |-> call.hasVoice,
                     mode |-> r.mode,
                     clarity |-> IntNum(r.clarity),
                     confidence |-> IntNum(r.confidence)]

\* lines 446-472: the backend's response to a call arrives
UseResponse(call, res) ==
    IF res.success /\ ~(CanConvert(res.evaluation.clarity)
                          /\ CanConvert(res.evaluation.confidence))
    THEN FallBackAfterCount(call, res)
    ELSE IF res.success
    THEN /\ state' = Counted(res.evaluation.clarity, res.evaluation.confidence)
         /\ shown' = [source |-> "backend",
                      click |-> Click(call.hasFace, call.hasVoice, "none"),
                      hasFace |-> call.hasFace,
                      hasVoice |-> call.hasVoice, mode |-> res.mode,
                      clarity |-> res.evaluation.clarity,
                      confidence |-> res.evaluation.confidence]
    ELSE FallBack(call, "unsuccessful")

\* lines 438-472: the fetch of a waiting evaluateWithBackend call settles:
\* fetch is rejected, or response.json() cannot decode the body, or the
\* server's /api/evaluate handler answers the call
FetchSettlesUpTo(cap) ==
    /\ state.evaluationCount < cap
    /\ \E i \in 1 .. Len(fetches) :
         LET call == fetches[i]
             body == EvaluationData(call)
         IN /\ fetches' = RemoveAt(fetches, i)
            /\ \/ \E cause \in {"network", "unparseable"} :
                    FallBack(call, cause)
               \/ IF ReachesModel(body)
                  THEN \E res \in {Evaluate(body, reply).res :
                                      reply \in BrowserReplies} :
                          UseResponse(call, res)
                  ELSE UseResponse(call, Evaluate(body, NoReply).res)
    /\ UNCHANGED <<currentEmotion, faceSample, handles, live, buttons, statusProbe, mediaPending, detecting>>
    /\ UNCHANGED <<serverVars, trial>>

FetchSettles == FetchSettlesUpTo(MaxEvals)

BrowserNext ==
    \/ CheckBackendStatus
    \/ StartClick
    \/ MediaDenied
    \/ MediaGranted
    \/ StopPractice
    \/ DrawTick
    \/ FaceTick
    \/ DetectionSettles
    \/ EvaluatePerformance
    \/ FetchSettles

\* no function is being applied
NoTrial == [kind |-> "none"]

Init == ServerInit /\ BrowserInit /\ trial = NoTrial
Next == ServerNext
Spec == Init /\ [][Next]_vars

\* the page with the server behind it.  The page meets the server's
\* configuration only as NotConfigured, so the server is taken without a
\* key or with its client and model handle built.
ClientInit == Init /\ genAI = envKey /\ model = genAI
ClientSpec == ClientInit /\ [][BrowserNext]_vars

-----------------------------------------------------------------------------
(* The functions of the page, applied to drawn arguments *)

\* evaluateLocally(hasFace, hasVoice) on a page whose this.state holds the
\* flags of self
LocalTrials ==
    {[kind |-> "evaluateLocally", done |-> FALSE, self |-> self,
      hasFace |-> hasFace, hasVoice |-> hasVoice,
      mode |-> "", clarity |-> 0, confidence |-> 0] :
        self \in [faceDetected : BOOLEAN, voiceDetected : BOOLEAN],
        hasFace \in BOOLEAN, hasVoice \in BOOLEAN}

LocalInit == ServerInit /\ BrowserInit /\ trial \in LocalTrials

\* lines 475-495: the scores of one call, for every draw of Math.random()
ScoreLocally ==
    /\ trial.kind = "evaluateLocally"
    /\ ~trial.done
    /\ \E r \in {LocalScores(trial.self, trial.hasFace, trial.hasVoice,
                              k1, k2, k3) :
                    k1 \in Randoms, k2 \in Randoms, k3 \in Randoms} :
         trial' = [trial EXCEPT !.done = TRUE, !.mode = r.mode,
                                !.clarity = r.clarity,
                                !.confidence = r.confidence]
    /\ UNCHANGED <<serverVars, browserVars>>

LocalNext == ScoreLocally
LocalSpec == LocalInit /\ [][LocalNext]_vars

\* the greatest value of a Uint8Array element
MaxByte == 255

\* one run of draw() on frequency data with the given average and maximum
AudioTrials ==
    {[kind |-> "draw", done |-> FALSE, average |-> average,
      maxValue |-> maxValue, finalDb |-> 0, voiceDetected |-> FALSE,
      emotionTone |-> "unset"] :
        average \in 0 .. MaxByte, maxValue \in 0 .. MaxByte}

AudioInit ==
    /\ ServerInit /\ genAI = envKey /\ model = genAI
    /\ BrowserInit
    /\ trial \in {t \in AudioTrials : t.average <= t.maxValue}

\* lines 238-267
DrawOnce ==
    /\ trial.kind = "draw"
    /\ ~trial.done
    /\ LET sample == DrawSample(trial.average, trial.maxValue)
       IN trial' = [trial EXCEPT !.done = TRUE,
                                 !.finalDb = sample.finalDb,
                                 !.voiceDetected = sample.voiceDetected,
                                 !.emotionTone = sample.emotionTone]
    /\ UNCHANGED <<serverVars, browserVars>>

AudioNext == DrawOnce
AudioSpec == AudioInit /\ [][AudioNext]_vars

-----------------------------------------------------------------------------
(* Evaluations of one practice session *)

\* the evaluations followed in one session
MaxCounted == 2

\* the page after checkBackendStatus has settled and one startPractice has
\* succeeded: draw() and detectFace have stored their first samples
SessionInit ==
    /\ ServerInit /\ genAI = envKey /\ model = genAI
    /\ \E sample \in Samples, face \in BOOLEAN, reached \in BOOLEAN :
         /\ state = [isRecording |-> TRUE, faceDetected |-> face,
                     voiceDetected |-> sample.voiceDetected,
                     evaluationCount |-> 0,
                     totalClarity |-> IntNum(0), totalConfidence |-> IntNum(0),
                     backendAvailable |-> reached]
         /\ currentEmotion = sample.emotionTone
    /\ handles = [stream |-> TRUE, audioContext |-> TRUE,
                  faceDetectionInterval |-> TRUE, sessionInterval |-> TRUE]
    /\ live = [streams |-> 1, contexts |-> 1, faceIntervals |-> 1,
               sessionIntervals |-> 1, drawLoops |-> 1]
    /\ buttons = [start |-> TRUE, stop |-> FALSE, evaluate |-> FALSE]
    /\ statusProbe = "done"
    /\ mediaPending = 0
    /\ detecting = <<>>
    /\ faceSample = "newest"
    /\ fetches = <<>>
    /\ shown = [source |-> "none"]
    /\ trial = NoTrial

CountedEvaluate == EvaluatePerformanceUpTo(MaxCounted)
CountedFetchSettles == FetchSettlesUpTo(MaxCounted)

SessionNext ==
    \/ DrawTick
    \/ FaceTick
    \/ DetectionSettles
    \/ StopPractice
    \/ CountedEvaluate
    \/ CountedFetchSettles

SessionSpec == SessionInit /\ [][SessionNext]_vars

-----------------------------------------------------------------------------
(* Claims about the server *)

IsEvaluate == exch.route = "/api/evaluate"
IsFeedback == exch.route = "/api/feedback"

\* an integer in 0 .. 10, as the response carries it
IsIntegerScore(v) ==
    v.t = "number" /\ ~v.nan /\ v.q % Unit = 0 /\ v.q >= 0 /\ v.q <= 10 * Unit

\* C1: every 200 response of POST /api/evaluate carries clarity and
\* confidence that are integers in [0,10], whatever the model returned.
C1_ScoresAreIntegersInRange ==
    (IsEvaluate /\ exch.res.status = 200) =>
        /\ IsIntegerScore(exch.res.evaluation.clarity)
        /\ IsIntegerScore(exch.res.evaluation.confidence)

\* the request was parsed, the derived mode is "No Voice" (hasVoice is not
\* truthy) and the model was called
NoVoiceReachedModel ==
    /\ IsEvaluate /\ exch.parsed /\ exch.calls = 1
    /\ ~ToBoolean(exch.body.hasVoice)

NoVoiceResult ==
    /\ exch.res.status = 200
    /\ exch.res.evaluation.clarity = IntNum(0)
    /\ exch.res.evaluation.confidence = IntNum(0)
    /\ exch.res.evaluation.clarityFeedback = Str(SpeakSentence)
    /\ exch.res.evaluation.confidenceFeedback = Str(StartSentence)

\* C2 as claimed: in mode "No Voice", once the request reaches the model,
\* the answer is always clarity 0, confidence 0 and the two fixed sentences,
\* whatever text the model returned.
C2_NoVoiceAlwaysZero ==
    (NoVoiceReachedModel /\ exch.reply.k = "text") => NoVoiceResult

\* the reply is a text whose extracted JSON decodes to an object or an array
DecodesToObject(reply) ==
    /\ reply.k = "text"
    /\ ParseReply(reply).ok
    /\ ParseReply(reply).value.t \in {"object", "array"}

\* C2 amended: in mode "No Voice", once the request reaches the model, the
\* answer is 200 exactly when the reply decodes to a JSON object or array,
\* and then it is clarity 0, confidence 0 and the two fixed sentences
\* whatever the reply held; otherwise the answer is 500.
C2_NoVoiceZeroWhenDecoded ==
    NoVoiceReachedModel =>
        /\ (exch.res.status = 200) <=> DecodesToObject(exch.reply)
        /\ (exch.res.status = 200) => NoVoiceResult
        /\ (exch.res.status # 200) => (exch.res.status = 500 /\ ~exch.res.success)

C2_Witness ==
    /\ NoVoiceReachedModel
    /\ exch.reply.k = "text"
    /\ exch.reply.payload.t = "object"
    /\ exch.reply.payload.clarity = IntNum(8)
    /\ exch.reply.payload.confidence = IntNum(7)
    /\ exch.reply.payload.clarityFeedback = Str("model text")
    /\ NoVoiceResult

\* the 200 answers of mode "Only Voice"
OnlyVoiceAnswered ==
    IsEvaluate /\ exch.res.status = 200 /\ exch.res.mode = OnlyVoice

\* the confidence the model returned, as a number
ModelConfidence ==
    ToNumber(Field(ParseReply(exch.reply).value, "confidence"))

\* floor(c / 2 + 1 / 2) for c = q / Unit
HalfRounded(q) == (q + Unit) \div (2 * Unit)

\* C3 as claimed: in mode "Only Voice" the returned confidence equals
\* round(model_confidence * 0.5) and confidenceFeedback is the camera sentence.
C3_OnlyVoiceHalves ==
    OnlyVoiceAnswered =>
        /\ exch.res.evaluation.confidenceFeedback = Str(CameraSentence)
        /\ exch.res.evaluation.confidence =
              IF ModelConfidence.nan THEN Null
              ELSE IntNum(HalfRounded(ModelConfidence.q))

\* C3 amended: in mode "Only Voice" the returned confidence equals
\* round(model_confidence * 0.5) clamped to [0,10] (null when the model's
\* confidence is not a number), and confidenceFeedback is the camera sentence.
C3_OnlyVoiceHalvesClamped ==
    OnlyVoiceAnswered =>
        /\ exch.res.evaluation.confidenceFeedback = Str(CameraSentence)
        /\ exch.res.evaluation.confidence =
              IF ModelConfidence.nan THEN Null
              ELSE LET r == HalfRounded(ModelConfidence.q)
                   IN IntNum(IF r < 0 THEN 0 ELSE IF r > 10 THEN 10 ELSE r)

C3_Witness ==
    /\ OnlyVoiceAnswered
    /\ Field(exch.reply.payload, "confidence") = Num(30)
    /\ exch.res.evaluation.confidence = IntNum(4)

\* C4: POST /api/feedback never answers with a status other than 200 and
\* never with an error field.
C4_FeedbackAlways200 ==
    IsFeedback => (exch.res.status = 200 /\ "error" \notin DOMAIN exch.res)

\* C6: an empty or absent transcript with hasVoice = false is answered 400,
\* whatever the other fields and the configuration, without a model call.
C6_NoInputIs400 ==
    (/\ IsEvaluate /\ exch.parsed
     /\ exch.body.transcript \in {Undefined, Str("")}
     /\ exch.body.hasVoice = Bool(FALSE))
    => (exch.res.status = 400 /\ ~exch.res.success /\ exch.calls = 0)

C6_Witness ==
    /\ IsEvaluate /\ exch.parsed
    /\ exch.body.transcript = Str("")
    /\ exch.body.hasVoice = Bool(FALSE)
    /\ exch.body.hasFace = Bool(TRUE)
    /\ ~genAI
    /\ exch.res.status = 400

\* C7: valid input (a non-empty transcript or hasVoice true) while the AI
\* client is not configured is answered 503 with success false and the
\* error naming the missing configuration, without a model call.
C7_UnconfiguredIs503 ==
    (/\ IsEvaluate /\ exch.parsed
     /\ (ToBoolean(exch.body.transcript) \/ ToBoolean(exch.body.hasVoice))
     /\ ~(genAI /\ model))
    => /\ exch.res.status = 503
       /\ ~exch.res.success
       /\ exch.res.error =
            "Gemini AI not configured. Please add GEMINI_API_KEY to .env file"
       /\ exch.calls = 0

C7_Witness ==
    /\ IsEvaluate /\ exch.parsed
    /\ exch.body.transcript = Str("Hello")
    /\ exch.body.hasFace = Bool(TRUE)
    /\ exch.body.hasVoice = Bool(TRUE)
    /\ genAI /\ ~model
    /\ exch.res.status = 503

ClarityTipSet == {Str(clarityTips[i]) : i \in 1 .. 6}
ConfidenceTipSet == {Str(confidenceTips[i]) : i \in 1 .. 6}

\* the handler answered with the fallback: the AI is not configured, or the
\* call threw, or its text could not be decoded
FellBack ==
    /\ IsFeedback /\ exch.parsed
    /\ \/ ~(genAI /\ model)
       \/ exch.reply.k = "throws"
       \/ (exch.reply.k = "text" /\ ~ParseReply(exch.reply).ok)

\* C8: whenever /api/feedback falls back, on either path, mode "No Voice"
\* gives the two fixed sentences, mode "Only Voice" the camera sentence and
\* one of the 6 clarity tips, any other mode one of the 6 clarity tips and
\* one of the 6 confidence tips; clarity and confidence play no part.
C8_FallbackRule ==
    FellBack =>
        /\ exch.res.status = 200
        /\ DOMAIN exch.res.feedback = {"t", "clarityTip", "confidenceTip"}
        /\ IF exch.body.mode = Str(NoVoice)
           THEN /\ exch.res.feedback.clarityTip = Str(SpeakSentence)
                /\ exch.res.feedback.confidenceTip = Str(StartSentence)
           ELSE IF exch.body.mode = Str(OnlyVoice)
           THEN /\ exch.res.feedback.clarityTip \in ClarityTipSet
                /\ exch.res.feedback.confidenceTip = Str(CameraSentence)
           ELSE /\ exch.res.feedback.clarityTip \in ClarityTipSet
                /\ exch.res.feedback.confidenceTip \in ConfidenceTipSet

C8_Witness ==
    /\ FellBack
    /\ genAI /\ model /\ exch.reply.k = "text"
    /\ exch.body.clarity = IntNum(8)
    /\ exch.body.confidence = IntNum(7)
    /\ exch.body.mode = Str(OnlyVoice)
    /\ exch.res.feedback.confidenceTip = Str(CameraSentence)
    /\ exch.res.feedback.clarityTip = Str(clarityTips[6])

\* an object holding exactly the two tips, both strings
IsTipPair(v) ==
    /\ v.t = "object"
    /\ {f \in DOMAIN v \ {"t"} : v[f] # Undefined} = {"clarityTip", "confidenceTip"}
    /\ v.clarityTip.t = "string"
    /\ v.confidenceTip.t = "string"

\* C9: every response of the /api/feedback handler carries a feedback object
\* holding exactly the two tip strings, also when the AI reply decodes.
C9_FeedbackIsTipPair ==
    (IsFeedback /\ exch.parsed) =>
        ("feedback" \in DOMAIN exch.res /\ IsTipPair(exch.res.feedback))

\* C10: a request makes at most one model call, none when it is answered 400
\* or 503; when the call throws or its reply cannot be decoded the answer is
\* 500 with success false and no evaluation.
C10_SingleCallNoFallback ==
    IsEvaluate =>
        /\ exch.calls <= 1
        /\ (exch.res.status \in {400, 503}) => (exch.calls = 0)
        /\ (exch.calls >= 1 /\ (exch.reply.k = "throws" \/ ~ParseReply(exch.reply).ok))
            => /\ exch.res.status = 500
               /\ ~exch.res.success
               /\ "evaluation" \notin DOMAIN exch.res

C10_Witness ==
    /\ IsEvaluate /\ exch.calls = 1
    /\ exch.reply.k = "text" /\ exch.reply.payload = Garbage
    /\ exch.res.status = 500
    /\ exch.res.error = "Invalid response format from AI"

IsAnalyzeAudio == exch.route = "/api/analyze-audio"

\* the request carries a file part named audio.  A request that
\* express.json() or upload.single('audio') rejects carries none: it is a
\* JSON body that does not parse, or a form whose file part has another name.
HasAudioPart == exch.parsed /\ exch.body.file

\* C16: POST /api/analyze-audio answers 400 when no audio file part is
\* present, whatever the configuration; 503 when a file is present and the
\* AI client is not configured; 500 when the model call fails; and else 200
\* with analysis equal to the text of the model, after exactly one model
\* call (and no model call on the 400 and 503 answers).
C16_AnalyzeAudioOutcomes ==
    IsAnalyzeAudio =>
        IF ~HasAudioPart
        THEN exch.res.status = 400 /\ ~exch.res.success /\ exch.calls = 0
        ELSE IF ~(genAI /\ model)
        THEN exch.res.status = 503 /\ ~exch.res.success /\ exch.calls = 0
        ELSE IF exch.reply.k = "throws"
        THEN exch.res.status = 500 /\ ~exch.res.success /\ exch.calls = 1
        ELSE /\ exch.res.status = 200 /\ exch.res.success
             /\ exch.res.analysis = exch.reply
             /\ exch.calls = 1

IsHealth == exch.route = "/health"
IsApiStatus == exch.route = "/api/status"

\* POST /api/evaluate answers 503 to valid input: a transcript with face and
\* voice, whatever the model would reply
ValidInputIs503 ==
    \E reply \in BrowserReplies :
        Evaluate([transcript |-> Str("Hello"), hasFace |-> Bool(TRUE),
                  hasVoice |-> Bool(TRUE)], reply).res.status = 503

\* C22: for every outcome of the start-up initialization, GET /api/status
\* reports geminiAvailable = true and GET /health reports
\* geminiConfigured = true exactly when POST /api/evaluate with valid input
\* does not answer 503.
C22_ReportsAgreeWithEvaluate ==
    /\ IsApiStatus => (exch.res.geminiAvailable <=> ~ValidInputIs503)
    /\ IsHealth => (exch.res.body.geminiConfigured <=> ~ValidInputIs503)

-----------------------------------------------------------------------------
(* Claims about the functions of the page *)

\* C11: every call of evaluateLocally that takes the "No Voice" path
\* (hasVoice false) gives clarity in {5, 6, 7} and confidence in {3, 4, 5},
\* for every value of the random source.
C11_NoVoiceRanges ==
    (trial.kind = "evaluateLocally" /\ trial.done /\ ~trial.hasVoice) =>
        /\ trial.mode = "No Voice"
        /\ trial.clarity \in {5, 6, 7}
        /\ trial.confidence \in {3, 4, 5}

C11_Witness ==
    /\ trial.kind = "evaluateLocally" /\ trial.done
    /\ trial.hasFace /\ ~trial.hasVoice
    /\ ~trial.self.faceDetected /\ ~trial.self.voiceDetected
    /\ trial.clarity = 7
    /\ trial.confidence = 3

\* the band of the emotion table a level lies in
EmotionBand(level) ==
    IF level <= 3 THEN "Neutral"
    ELSE IF level \in 4 .. 10 THEN "Soft"
    ELSE IF level \in 11 .. 25 THEN "Calm"
    ELSE IF level \in 26 .. 40 THEN "Confident"
    ELSE "Energetic"

\* C19: after an audio tick on byte magnitudes avg <= peak in 0..255 the
\* level final is the greater of round(avg/255*60) and
\* round(0.7*round(peak/255*60)) and lies in 0..60; voiceDetected is true
\* exactly when final > 3; the emotion is Neutral up to 3, Soft for 4..10,
\* Calm for 11..25, Confident for 26..40 and Energetic above 40; so
\* voiceDetected holds exactly when the emotion is not Neutral.
C19_AudioBands ==
    (trial.kind = "draw" /\ trial.done) =>
        /\ trial.finalDb \in 0 .. 60
        /\ trial.finalDb \in {ToDb(trial.average),
                              RoundSevenTenths(ToDb(trial.maxValue))}
        /\ trial.finalDb >= ToDb(trial.average)
        /\ trial.finalDb >= RoundSevenTenths(ToDb(trial.maxValue))
        /\ trial.voiceDetected <=> (trial.finalDb > 3)
        /\ trial.emotionTone = EmotionBand(trial.finalDb)
        /\ trial.voiceDetected <=> (trial.emotionTone # "Neutral")

\* a silent average under a peak of 191: maxDb is 45 and the level 31
C19_Witness ==
    /\ trial.kind = "draw" /\ trial.done
    /\ trial.average = 0
    /\ trial.maxValue = 191
    /\ trial.finalDb = 31
    /\ trial.voiceDetected
    /\ trial.emotionTone = "Confident"

-----------------------------------------------------------------------------
(* Claims about the page and the server together *)

\* the mode of each pair (hasFace, hasVoice)
ModeTable(hasFace, hasVoice) ==
    CASE hasFace /\ hasVoice -> "Human Face + Voice"
      [] ~hasFace /\ hasVoice -> "Only Voice"
      [] hasFace /\ ~hasVoice -> "No Voice"
      [] ~hasFace /\ ~hasVoice -> "No Voice"

\* C5: the mode is a total function of (hasFace, hasVoice) with the three
\* results of the table, and the mode the server's /api/evaluate derives and
\* the mode evaluateLocally derives agree with it on every pair.
C5_ModeTable ==
    (shown.source # "none") =>
        shown.mode = ModeTable(shown.hasFace, shown.hasVoice)

C5_Witness ==
    /\ shown.source = "backend"
    /\ shown.hasFace /\ ~shown.hasVoice
    /\ shown.mode = "No Voice"

\* the last evaluation shown was the catch of a failed backend call
ShownFallback == shown.source # "none" /\ shown.click.cause # "none"

\* a step in which the catch of evaluateWithBackend evaluates locally
FallbackStep ==
    /\ Len(fetches') < Len(fetches)
    /\ shown'.source = "local"

\* a step in which evaluatePerformance evaluates locally without a request
DirectLocalStep ==
    /\ fetches' = fetches
    /\ state'.evaluationCount # state.evaluationCount

\* what holds of the page after a fallback, and while a request waits
FallbackShown ==
    /\ ShownFallback =>
          /\ shown.source = "local"
          /\ shown.hasFace = shown.click.hasFace
          /\ shown.hasVoice = shown.click.hasVoice
          /\ state.backendAvailable
    /\ (fetches # <<>>) => state.backendAvailable

\* what a fallback changes, and what the click after a fallback does
FallbackSteps ==
    /\ FallbackStep =>
          /\ shown'.click.cause \in {"network", "unparseable", "unsuccessful"}
          /\ state'.evaluationCount = state.evaluationCount + 1
          /\ state'.backendAvailable = state.backendAvailable
    /\ DirectLocalStep => ~ShownFallback

\* C12: when a backend evaluation call fails (network error, unparseable
\* reply, or a reply with success false), that one evaluation is completed
\* by evaluateLocally with the hasFace/hasVoice captured at the click,
\* backendAvailable is left unchanged (true), and the next
\* evaluatePerformance call goes to the backend again, never straight to
\* evaluateLocally.
C12_FallbackOneCall == []FallbackShown /\ [][FallbackSteps]_vars

\* after the fallback of a call whose flags had changed meanwhile, the next
\* click has sent its request
C12_Witness ==
    /\ ShownFallback
    /\ shown.click.cause = "unparseable"
    /\ shown.hasFace /\ shown.hasVoice
    /\ ~state.faceDetected
    /\ Len(fetches) = 1
    /\ ~fetches[1].hasFace

-----------------------------------------------------------------------------
(* Claims about a practice session *)

\* C13: after stopPractice, following any sequence of Start and Stop clicks
\* (a second Start click while the first media request is pending included),
\* no face-detection timer and no session-clock timer is active, no acquired
\* stream has live tracks and no audio context is open.
C13_StopReleasesAll ==
    ~state.isRecording =>
        /\ live.faceIntervals = 0
        /\ live.sessionIntervals = 0
        /\ live.streams = 0
        /\ live.contexts = 0

\* C14: a face detection in flight when stopPractice runs is discarded:
\* once stopPractice has set isRecording and faceDetected to false,
\* faceDetected stays false until the next startPractice, in whatever order
\* the pending detection completes.
C14_StoppedFaceStaysFalse == ~state.isRecording => ~state.faceDetected

\* a startPractice call ends without having started the face-detection
\* timer: getUserMedia was rejected or a later step threw
FailedStartStep ==
    /\ mediaPending' < mediaPending
    /\ live'.faceIntervals = live.faceIntervals

\* C15: when startPractice fails (the media request is rejected or a later
\* setup step throws), the capture state is left unchanged: isRecording,
\* faceDetected and voiceDetected keep their values, no timer is started and
\* the three buttons keep their enabled state.
C15_FailedStartChangesNothing ==
    [][FailedStartStep =>
         /\ state' = state
         /\ buttons' = buttons
         /\ live'.sessionIntervals = live.sessionIntervals]_vars

\* C18: faceDetected always holds the result of the most recently started
\* detection that has completed: when detections overlap and complete out
\* of order, the result of an older one never replaces that of a newer one.
C18_NewestSampleWins == faceSample # "overtaken"

\* C20: at any time at most one draw loop is rescheduling itself and at most
\* one face-detection interval is installed, after any sequence of Start and
\* Stop clicks; a loop of an earlier session never runs on in a later one.
C20_OneLoopOneInterval ==
    /\ state.isRecording => live.drawLoops <= 1
    /\ live.faceIntervals <= 1

-----------------------------------------------------------------------------
(* Claims about the scores of the page *)

\* an integer score from 1 to 10
IsShownScore(v) ==
    v.t = "number" /\ ~v.nan /\ v.q % Unit = 0 /\ v.q >= Unit /\ v.q <= 10 * Unit

\* C17: every result of evaluateLocally has integer clarity and confidence
\* that are never 0 and never above 10, in every mode, also when it runs as
\* the fallback of a backend call during which faceDetected or voiceDetected
\* changed after hasFace and hasVoice were captured.
C17_LocalScoresNeverZero ==
    (shown.source = "local") =>
        (IsShownScore(shown.clarity) /\ IsShownScore(shown.confidence))

\* a total lies between 0 and 10 times the count
TotalInRange(total, count) ==
    /\ total.t = "number" /\ ~total.nan
    /\ total.q >= 0
    /\ total.q <= 10 * Unit * count

TotalsInRange ==
    /\ state.evaluationCount >= 0
    /\ TotalInRange(state.totalClarity, state.evaluationCount)
    /\ TotalInRange(state.totalConfidence, state.evaluationCount)

\* a fetch settles, another result is displayed, or a counter changes
CompletionStep ==
    \/ Len(fetches') < Len(fetches)
    \/ shown' # shown
    \/ state'.evaluationCount # state.evaluationCount
    \/ state'.totalClarity # state.totalClarity
    \/ state'.totalConfidence # state.totalConfidence

\* a click on Stop
StopStep == ~buttons.stop /\ buttons'.stop

CountingSteps ==
    /\ CompletionStep =>
         /\ state'.evaluationCount = state.evaluationCount + 1
         /\ state'.totalClarity = Plus(state.totalClarity, shown'.clarity)
         /\ state'.totalConfidence =
                Plus(state.totalConfidence, shown'.confidence)
    /\ StopStep => ~CompletionStep

\* C21: every evaluatePerformance call that completes, with the backend
\* result, the local result or the local fallback, increases
\* evaluationCount by exactly 1 and adds the displayed clarity and
\* confidence to the totals; no other step, stopPractice included, changes
\* the three counters; so 0 <= totalClarity <= 10 * evaluationCount and
\* 0 <= totalConfidence <= 10 * evaluationCount hold in every state.
C21_CountersFollowResults == []TotalsInRange /\ [][CountingSteps]_vars

\* the second result, a backend one, arrives after Stop and the clarity
\* total has passed 10
C21_Witness ==
    /\ state.evaluationCount = 2
    /\ ~state.isRecording
    /\ shown.source = "backend"
    /\ state.totalClarity.q > 10 * Unit
    /\ state.totalConfidence.q > 10 * Unit

====
